---- MODULE Spec2Model ----
(***************************************************************************)
(* Minisweeper board engine (minisweeper.py, class Board) and the chord    *)
(* composite of the Tk front end (game.py, MinesweeperApp.on_chord).       *)
(*                                                                         *)
(* A board is the record                                                   *)
(*   [w, h, mine_target, grid, mines_placed, revealed_count]               *)
(* where grid maps the coordinate <<x, y>> (x the column, y the row) to a  *)
(* Cell record; the source's grid[y][x] is grid[<<x, y>>] here.            *)
(* random.sample is a nondeterministic choice, so the operators that may   *)
(* place mines return the SET of their possible results.                   *)
(*                                                                         *)
(* Boards of at most FullCells cells are explored with every mine count    *)
(* and MaxOps calls; larger boards (up to MaxW x MaxH, MaxCells cells)     *)
(* with at most MaxMines mines and BigOps calls.                           *)
(***************************************************************************)
EXTENDS Integers, Sequences, FiniteSets, TLC

\* ---- bounds of the model ----
MaxW == 4        \* widths 0 .. MaxW
MaxH == 3        \* heights 0 .. MaxH
MaxCells == 12   \* boards of at most MaxCells cells
FullCells == 6   \* boards of at most FullCells cells: every mine count, MaxOps operations
MaxOps == 3      \* operations called on a board of at most FullCells cells
MaxMines == 2    \* mine counts 0 .. MaxMines on a board of more than FullCells cells
BigOps == 1      \* operations called on a board of more than FullCells cells

VARIABLES
    ctor,            \* arguments of Board(width, height, mines) and whether it raised
    w, h,            \* Board.w, Board.h
    mine_target,     \* Board.mine_target
    grid,            \* Board.grid
    mines_placed,    \* Board.mines_placed
    revealed_count,  \* Board.revealed_count
    game_over,       \* MinesweeperApp.game_over
    safe,            \* arguments (safe_x, safe_y) of the one call of place_mines_excluding, <<>> before it
    last,            \* the last operation called, its arguments and what it returned
    ops              \* number of operations called so far

vars == <<ctor, w, h, mine_target, grid, mines_placed, revealed_count, game_over, safe, last, ops>>

\* ---- class Cell ----
Cell == [mine |-> FALSE, revealed |-> FALSE, flagged |-> FALSE, adj |-> 0]

Coords(width, height) == (0 .. width - 1) \X (0 .. height - 1)

SeqToSet(s) == {s[i] : i \in 1 .. Len(s)}

\* ---- Board.__init__ ----
NoBoard ==
    [w |-> 0, h |-> 0, mine_target |-> 0, grid |-> [c \in {} |-> Cell],
     mines_placed |-> FALSE, revealed_count |-> 0]

\* BoardInit that lets every cell be a mine (max_mines without the - 1)
BoardInit_all_mines(width, height, mines) ==
    IF width <= 0 \/ height <= 0
    THEN [raised |-> TRUE, b |-> NoBoard]
    ELSE LET max_mines == width * height IN
         IF ~(0 < mines /\ mines <= max_mines)
         THEN [raised |-> TRUE, b |-> NoBoard]
         ELSE [raised |-> FALSE,
               b |-> [w |-> width, h |-> height, mine_target |-> mines,
                      grid |-> [c \in Coords(width, height) |-> Cell],
                      mines_placed |-> FALSE, revealed_count |-> 0]]

BoardInit(width, height, mines) ==
    IF width <= 0 \/ height <= 0
    THEN [raised |-> TRUE, b |-> NoBoard]
    ELSE LET max_mines == width * height - 1 IN
         IF ~(0 < mines /\ mines <= max_mines)
         THEN [raised |-> TRUE, b |-> NoBoard]
         ELSE [raised |-> FALSE,
               b |-> [w |-> width, h |-> height, mine_target |-> mines,
                      grid |-> [c \in Coords(width, height) |-> Cell],
                      mines_placed |-> FALSE, revealed_count |-> 0]]

\* ---- Board.in_bounds ----
in_bounds(b, x, y) == 0 <= x /\ x < b.w /\ 0 <= y /\ y < b.h

\* ---- Board.neighbors: dy outer loop, dx inner loop, (0,0) skipped ----
Offsets ==
    << <<-1, -1>>, <<0, -1>>, <<1, -1>>,
       <<-1,  0>>,            <<1,  0>>,
       <<-1,  1>>, <<0,  1>>, <<1,  1>> >>

neighbors(b, x, y) ==
    LET around == [i \in 1 .. 8 |-> <<x + Offsets[i][1], y + Offsets[i][2]>>]
        inside(c) == in_bounds(b, c[1], c[2])
    IN  SelectSeq(around, inside)

\* candidates with only the clicked cell excluded, never its neighbours
candidates_only_cell(b, safe_x, safe_y) ==
    Coords(b.w, b.h) \ {<<safe_x, safe_y>>}

\* candidates without the fallback of lines 63-65
candidates_no_fallback(b, safe_x, safe_y) ==
    LET all_coords == Coords(b.w, b.h)
        excluded == {<<safe_x, safe_y>>} \cup SeqToSet(neighbors(b, safe_x, safe_y))
    IN  all_coords \ excluded

\* ---- Board.place_mines_excluding ----
candidates(b, safe_x, safe_y) ==
    LET all_coords == Coords(b.w, b.h)
        excluded == {<<safe_x, safe_y>>} \cup SeqToSet(neighbors(b, safe_x, safe_y))
        cand == all_coords \ excluded
    IN  IF Cardinality(cand) < b.mine_target
        THEN all_coords \ {<<safe_x, safe_y>>}
        ELSE cand

\* random.sample(population, k): every k-subset; none (ValueError) when k > len(population)
sample(population, k) == {S \in SUBSET population : Cardinality(S) = k}

\* adjacent_mines that misses the last neighbour
adjacent_mines_short(b, g, c) ==
    LET ns == neighbors(b, c[1], c[2])
    IN  Cardinality({i \in 1 .. Len(ns) - 1 : g[ns[i]].mine})

adjacent_mines(b, g, c) ==
    LET ns == neighbors(b, c[1], c[2])
    IN  Cardinality({i \in 1 .. Len(ns) : g[ns[i]].mine})

\* place_mines_excluding that forgets line 75, self.mines_placed = True
place_mines_excluding_unset(b, mines) ==
    LET g1 == [c \in DOMAIN b.grid |->
                  IF c \in mines THEN [b.grid[c] EXCEPT !.mine = TRUE] ELSE b.grid[c]]
        g2 == [c \in DOMAIN g1 |->
                  IF g1[c].mine THEN g1[c]
                  ELSE [g1[c] EXCEPT !.adj = adjacent_mines(b, g1, c)]]
    IN  [b EXCEPT !.grid = g2]

place_mines_excluding(b, mines) ==
    LET g1 == [c \in DOMAIN b.grid |->
                  IF c \in mines THEN [b.grid[c] EXCEPT !.mine = TRUE] ELSE b.grid[c]]
        g2 == [c \in DOMAIN g1 |->
                  IF g1[c].mine THEN g1[c]
                  ELSE [g1[c] EXCEPT !.adj = adjacent_mines(b, g1, c)]]
    IN  [b EXCEPT !.grid = g2, !.mines_placed = TRUE]

\* ---- Board.reveal: the flood fill loop (lines 97-112) ----
\* st = [b, stack, visited, pushed]; flood_visit is the for loop over the
\* neighbours of the popped cell, flood_fill the while loop over the stack.
\* pushed lists, in order, every cell the call has put on the stack.
\* flood_visit that counts a revealed neighbour only when it is pushed (adj = 0)
RECURSIVE flood_visit_uncounted(_, _, _)
flood_visit_uncounted(st, ns, i) ==
    IF i > Len(ns) THEN st
    ELSE LET n == ns[i]
             ncell == st.b.grid[n]
         IN  IF ncell.revealed \/ ncell.flagged THEN flood_visit_uncounted(st, ns, i + 1)
             ELSE IF ncell.mine THEN flood_visit_uncounted(st, ns, i + 1)
             ELSE LET b1 == [st.b EXCEPT !.grid[n].revealed = TRUE,
                                         !.revealed_count = IF ncell.adj = 0 THEN @ + 1 ELSE @]
                      st1 == [b |-> b1,
                              stack |-> IF ncell.adj = 0 THEN Append(st.stack, n) ELSE st.stack,
                              pushed |-> IF ncell.adj = 0 THEN Append(st.pushed, n) ELSE st.pushed,
                              visited |-> st.visited \cup {n}]
                  IN  flood_visit_uncounted(st1, ns, i + 1)

\* flood_visit that does not skip flagged neighbours
RECURSIVE flood_visit_through_flags(_, _, _)
flood_visit_through_flags(st, ns, i) ==
    IF i > Len(ns) THEN st
    ELSE LET n == ns[i]
             ncell == st.b.grid[n]
         IN  IF ncell.revealed THEN flood_visit_through_flags(st, ns, i + 1)
             ELSE IF ncell.mine THEN flood_visit_through_flags(st, ns, i + 1)
             ELSE LET b1 == [st.b EXCEPT !.grid[n].revealed = TRUE,
                                         !.revealed_count = @ + 1]
                      st1 == [b |-> b1,
                              stack |-> IF ncell.adj = 0 THEN Append(st.stack, n) ELSE st.stack,
                              pushed |-> IF ncell.adj = 0 THEN Append(st.pushed, n) ELSE st.pushed,
                              visited |-> st.visited \cup {n}]
                  IN  flood_visit_through_flags(st1, ns, i + 1)

\* flood_visit that pushes every revealed neighbour, numbered ones too
RECURSIVE flood_visit_push_all(_, _, _)
flood_visit_push_all(st, ns, i) ==
    IF i > Len(ns) THEN st
    ELSE LET n == ns[i]
             ncell == st.b.grid[n]
         IN  IF ncell.revealed \/ ncell.flagged THEN flood_visit_push_all(st, ns, i + 1)
             ELSE IF ncell.mine THEN flood_visit_push_all(st, ns, i + 1)
             ELSE LET b1 == [st.b EXCEPT !.grid[n].revealed = TRUE,
                                         !.revealed_count = @ + 1]
                      st1 == [b |-> b1,
                              stack |-> Append(st.stack, n),
                              pushed |-> Append(st.pushed, n),
                              visited |-> st.visited \cup {n}]
                  IN  flood_visit_push_all(st1, ns, i + 1)

\* flood_visit that pushes a cell of adj 0 twice
RECURSIVE flood_visit_push_twice(_, _, _)
flood_visit_push_twice(st, ns, i) ==
    IF i > Len(ns) THEN st
    ELSE LET n == ns[i]
             ncell == st.b.grid[n]
         IN  IF ncell.revealed \/ ncell.flagged THEN flood_visit_push_twice(st, ns, i + 1)
             ELSE IF ncell.mine THEN flood_visit_push_twice(st, ns, i + 1)
             ELSE LET b1 == [st.b EXCEPT !.grid[n].revealed = TRUE,
                                         !.revealed_count = @ + 1]
                      st1 == [b |-> b1,
                              stack |-> IF ncell.adj = 0
                                        THEN Append(Append(st.stack, n), n) ELSE st.stack,
                              pushed |-> IF ncell.adj = 0
                                         THEN Append(Append(st.pushed, n), n) ELSE st.pushed,
                              visited |-> st.visited \cup {n}]
                  IN  flood_visit_push_twice(st1, ns, i + 1)

RECURSIVE flood_visit(_, _, _)
flood_visit(st, ns, i) ==
    IF i > Len(ns) THEN st
    ELSE LET n == ns[i]
             ncell == st.b.grid[n]
         IN  IF ncell.revealed \/ ncell.flagged THEN flood_visit(st, ns, i + 1)
             ELSE IF ncell.mine THEN flood_visit(st, ns, i + 1)
             ELSE LET b1 == [st.b EXCEPT !.grid[n].revealed = TRUE,
                                         !.revealed_count = @ + 1]
                      st1 == [b |-> b1,
                              stack |-> IF ncell.adj = 0 THEN Append(st.stack, n) ELSE st.stack,
                              pushed |-> IF ncell.adj = 0 THEN Append(st.pushed, n) ELSE st.pushed,
                              visited |-> st.visited \cup {n}]
                  IN  flood_visit(st1, ns, i + 1)

RECURSIVE flood_fill(_)
flood_fill(st) ==
    IF st.stack = << >> THEN st
    ELSE LET c == st.stack[Len(st.stack)]
             popped == [st EXCEPT !.stack = SubSeq(st.stack, 1, Len(st.stack) - 1)]
         IN  flood_fill(flood_visit(popped, neighbors(st.b, c[1], c[2]), 1))

\* ---- Board.reveal, lines 91-113: after mines are in place ----
reveal_cell(b, x, y) ==
    LET b1 == [b EXCEPT !.grid[<<x, y>>].revealed = TRUE, !.revealed_count = @ + 1]
        cell == b1.grid[<<x, y>>]
    IN  IF cell.mine
        THEN [b |-> b1, ok |-> TRUE, hit |-> TRUE, raised |-> FALSE, pushed |-> << >>]
        ELSE IF cell.adj = 0
             THEN LET st == flood_fill([b |-> b1, stack |-> << <<x, y>> >>,
                                        visited |-> {<<x, y>>},
                                        pushed |-> << <<x, y>> >>])
                  IN  [b |-> st.b, ok |-> TRUE, hit |-> FALSE, raised |-> FALSE,
                       pushed |-> st.pushed]
             ELSE [b |-> b1, ok |-> TRUE, hit |-> FALSE, raised |-> FALSE, pushed |-> << >>]

\* reveal that places the mines before it looks at the flag
reveal_place_first(b, x, y) ==
    IF ~in_bounds(b, x, y)
    THEN {[b |-> b, ok |-> FALSE, hit |-> FALSE, raised |-> FALSE, pushed |-> << >>]}
    ELSE LET placed == IF b.mines_placed THEN {b}
                       ELSE {place_mines_excluding(b, mines) :
                                mines \in sample(candidates(b, x, y), b.mine_target)}
         IN  { IF p.grid[<<x, y>>].flagged
               THEN [b |-> p, ok |-> FALSE, hit |-> FALSE, raised |-> FALSE, pushed |-> << >>]
               ELSE IF p.grid[<<x, y>>].revealed
               THEN [b |-> p, ok |-> TRUE, hit |-> FALSE, raised |-> FALSE, pushed |-> << >>]
               ELSE reveal_cell(p, x, y) : p \in placed }

\* reveal without the early return of lines 86-88 on a revealed cell
reveal_again(b, x, y) ==
    IF ~in_bounds(b, x, y)
    THEN {[b |-> b, ok |-> FALSE, hit |-> FALSE, raised |-> FALSE, pushed |-> << >>]}
    ELSE IF b.grid[<<x, y>>].flagged
    THEN {[b |-> b, ok |-> FALSE, hit |-> FALSE, raised |-> FALSE, pushed |-> << >>]}
    ELSE IF ~b.mines_placed
    THEN LET samples == sample(candidates(b, x, y), b.mine_target) IN
         IF samples = {}
         THEN {[b |-> b, ok |-> FALSE, hit |-> FALSE, raised |-> TRUE, pushed |-> << >>]}
         ELSE {reveal_cell(place_mines_excluding(b, mines), x, y) : mines \in samples}
    ELSE {reveal_cell(b, x, y)}

\* reveal that places mines on every accepted call, not only the first
reveal_replace(b, x, y) ==
    IF ~in_bounds(b, x, y)
    THEN {[b |-> b, ok |-> FALSE, hit |-> FALSE, raised |-> FALSE, pushed |-> << >>]}
    ELSE IF b.grid[<<x, y>>].flagged
    THEN {[b |-> b, ok |-> FALSE, hit |-> FALSE, raised |-> FALSE, pushed |-> << >>]}
    ELSE IF b.grid[<<x, y>>].revealed
    THEN {[b |-> b, ok |-> TRUE, hit |-> FALSE, raised |-> FALSE, pushed |-> << >>]}
    ELSE LET samples == sample(candidates(b, x, y), b.mine_target) IN
         IF samples = {}
         THEN {[b |-> b, ok |-> FALSE, hit |-> FALSE, raised |-> TRUE, pushed |-> << >>]}
         ELSE {reveal_cell(place_mines_excluding(b, mines), x, y) : mines \in samples}

\* ---- Board.reveal: the set of possible results (b, ok, hit_mine) ----
reveal(b, x, y) ==
    IF ~in_bounds(b, x, y)
    THEN {[b |-> b, ok |-> FALSE, hit |-> FALSE, raised |-> FALSE, pushed |-> << >>]}
    ELSE IF b.grid[<<x, y>>].flagged
    THEN {[b |-> b, ok |-> FALSE, hit |-> FALSE, raised |-> FALSE, pushed |-> << >>]}
    ELSE IF b.grid[<<x, y>>].revealed
    THEN {[b |-> b, ok |-> TRUE, hit |-> FALSE, raised |-> FALSE, pushed |-> << >>]}
    ELSE IF ~b.mines_placed
    THEN LET samples == sample(candidates(b, x, y), b.mine_target) IN
         IF samples = {}
         THEN {[b |-> b, ok |-> FALSE, hit |-> FALSE, raised |-> TRUE, pushed |-> << >>]}
         ELSE {reveal_cell(place_mines_excluding(b, mines), x, y) : mines \in samples}
    ELSE {reveal_cell(b, x, y)}

\* toggle_flag without the check of lines 119-120
toggle_flag_any(b, x, y) ==
    IF ~in_bounds(b, x, y) THEN [b |-> b, ok |-> FALSE]
    ELSE [b |-> [b EXCEPT !.grid[<<x, y>>].flagged = ~@], ok |-> TRUE]

\* toggle_flag that sets the flag instead of flipping it
toggle_flag_set(b, x, y) ==
    IF ~in_bounds(b, x, y) THEN [b |-> b, ok |-> FALSE]
    ELSE IF b.grid[<<x, y>>].revealed THEN [b |-> b, ok |-> FALSE]
    ELSE [b |-> [b EXCEPT !.grid[<<x, y>>].flagged = TRUE], ok |-> TRUE]

\* ---- Board.toggle_flag ----
toggle_flag(b, x, y) ==
    IF ~in_bounds(b, x, y) THEN [b |-> b, ok |-> FALSE]
    ELSE IF b.grid[<<x, y>>].revealed THEN [b |-> b, ok |-> FALSE]
    ELSE [b |-> [b EXCEPT !.grid[<<x, y>>].flagged = ~@], ok |-> TRUE]

\* ---- Board.all_safe_revealed ----
all_safe_revealed(b) ==
    LET total_cells == b.w * b.h
    IN  b.revealed_count = total_cells - b.mine_target

\* ---- MinesweeperApp.on_chord ----
\* chord_reveal that leaves the loop after its first reveal, mine or not
RECURSIVE chord_reveal_first_only(_, _, _)
chord_reveal_first_only(b, ns, i) ==
    IF i > Len(ns) THEN {[b |-> b, hit |-> FALSE, calls |-> << >>]}
    ELSE LET ncell == b.grid[ns[i]] IN
         IF ~ncell.flagged /\ ~ncell.revealed
         THEN {[b |-> r.b, hit |-> r.hit, calls |-> <<ns[i]>>] :
                  r \in {q \in reveal(b, ns[i][1], ns[i][2]) : ~q.raised}}
         ELSE chord_reveal_first_only(b, ns, i + 1)

\* chord_reveal that goes on with the next neighbours after a mine was hit
RECURSIVE chord_reveal_past_hit(_, _, _)
chord_reveal_past_hit(b, ns, i) ==
    IF i > Len(ns) THEN {[b |-> b, hit |-> FALSE, calls |-> << >>]}
    ELSE LET ncell == b.grid[ns[i]] IN
         IF ~ncell.flagged /\ ~ncell.revealed
         THEN UNION { {[q EXCEPT !.calls = <<ns[i]>> \o @, !.hit = @ \/ r.hit] :
                          q \in chord_reveal_past_hit(r.b, ns, i + 1)}
                      : r \in {q \in reveal(b, ns[i][1], ns[i][2]) : ~q.raised} }
         ELSE chord_reveal_past_hit(b, ns, i + 1)

\* chord_reveal is the loop of lines 219-228 from the i-th neighbour on; it
\* yields the possible [b, hit, calls]: hit means the loop returned on a mine,
\* calls lists, in order, the neighbours board.reveal was called on.
RECURSIVE chord_reveal(_, _, _)
chord_reveal(b, ns, i) ==
    IF i > Len(ns) THEN {[b |-> b, hit |-> FALSE, calls |-> << >>]}
    ELSE LET ncell == b.grid[ns[i]] IN
         IF ~ncell.flagged /\ ~ncell.revealed
         THEN UNION { IF r.hit THEN {[b |-> r.b, hit |-> TRUE, calls |-> <<ns[i]>>]}
                      ELSE {[q EXCEPT !.calls = <<ns[i]>> \o @] :
                               q \in chord_reveal(r.b, ns, i + 1)}
                      : r \in {q \in reveal(b, ns[i][1], ns[i][2]) : ~q.raised} }
         ELSE chord_reveal(b, ns, i + 1)

flagged_neighbors(b, x, y) ==
    LET ns == neighbors(b, x, y)
    IN  Cardinality({i \in 1 .. Len(ns) : b.grid[ns[i]].flagged})

\* on_chord that gives up only when there are more flags than adj
on_chord_fewer_flags(b, over, x, y) ==
    LET c == b.grid[<<x, y>>]
        same == {[b |-> b, game_over |-> over, hit |-> FALSE, acted |-> FALSE,
                  calls |-> << >>, shown |-> << >>]}
    IN  IF over THEN same
        ELSE IF ~c.revealed \/ c.adj <= 0 THEN same
        ELSE IF flagged_neighbors(b, x, y) > c.adj THEN same
        ELSE { [b |-> r.b,
                game_over |-> r.hit \/ all_safe_revealed(r.b),
                hit |-> r.hit,
                acted |-> TRUE,
                calls |-> r.calls,
                shown |-> IF r.hit THEN <<"loss">>
                          ELSE IF all_safe_revealed(r.b) THEN <<"win">> ELSE << >>]
               : r \in chord_reveal(b, neighbors(b, x, y), 1) }

\* the possible [b, game_over, hit, acted, calls, shown] after on_chord(x, y);
\* acted means the handler got past its three early returns, shown lists the
\* message boxes it showed ("loss" for MINE_HIT_MSG, "win" for WIN_MSG)
on_chord(b, over, x, y) ==
    LET c == b.grid[<<x, y>>]
        same == {[b |-> b, game_over |-> over, hit |-> FALSE, acted |-> FALSE,
                  calls |-> << >>, shown |-> << >>]}
    IN  IF over THEN same
        ELSE IF ~c.revealed \/ c.adj <= 0 THEN same
        ELSE IF flagged_neighbors(b, x, y) # c.adj THEN same
        ELSE { [b |-> r.b,
                game_over |-> r.hit \/ all_safe_revealed(r.b),
                hit |-> r.hit,
                acted |-> TRUE,
                calls |-> r.calls,
                shown |-> IF r.hit THEN <<"loss">>
                          ELSE IF all_safe_revealed(r.b) THEN <<"win">> ELSE << >>]
               : r \in chord_reveal(b, neighbors(b, x, y), 1) }

\* ---- MinesweeperApp.on_left_click ----
\* on_left_click that looks at all_safe_revealed before it looks at hit
on_left_click_win_first(b, over, x, y) ==
    LET same == [b |-> b, game_over |-> over, ok |-> FALSE, hit |-> FALSE,
                 raised |-> FALSE, chorded |-> FALSE, pushed |-> << >>, calls |-> << >>,
                 shown |-> << >>]
    IN  IF over THEN {same}
        ELSE UNION {
               IF r.raised THEN {[same EXCEPT !.raised = TRUE]}
               ELSE LET cell == r.b.grid[<<x, y>>] IN
                    IF ~r.ok /\ cell.revealed /\ ~cell.mine
                    THEN {[same EXCEPT !.b = q.b, !.game_over = q.game_over, !.hit = q.hit,
                                       !.chorded = TRUE, !.calls = q.calls,
                                       !.shown = q.shown]
                            : q \in on_chord(r.b, over, x, y)}
                    ELSE IF all_safe_revealed(r.b)
                    THEN {[same EXCEPT !.b = r.b, !.game_over = TRUE, !.ok = r.ok,
                                       !.hit = r.hit, !.pushed = r.pushed,
                                       !.shown = <<"win">>]}
                    ELSE IF r.hit
                    THEN {[same EXCEPT !.b = r.b, !.game_over = TRUE, !.ok = r.ok,
                                       !.hit = TRUE, !.pushed = r.pushed,
                                       !.shown = <<"loss">>]}
                    ELSE {[same EXCEPT !.b = r.b, !.ok = r.ok, !.pushed = r.pushed]}
               : r \in reveal(b, x, y) }

\* the possible [b, game_over, ok, hit, raised, chorded, pushed, calls, shown]
\* after a left click on the button of cell (x, y); cell is the object read at
\* line 179, looked at again after reveal has run; chorded tells that the
\* click went on to on_chord (line 183); shown lists the message boxes shown
on_left_click(b, over, x, y) ==
    LET same == [b |-> b, game_over |-> over, ok |-> FALSE, hit |-> FALSE,
                 raised |-> FALSE, chorded |-> FALSE, pushed |-> << >>, calls |-> << >>,
                 shown |-> << >>]
    IN  IF over THEN {same}
        ELSE UNION {
               IF r.raised THEN {[same EXCEPT !.raised = TRUE]}
               ELSE LET cell == r.b.grid[<<x, y>>] IN
                    IF ~r.ok /\ cell.revealed /\ ~cell.mine
                    THEN {[same EXCEPT !.b = q.b, !.game_over = q.game_over, !.hit = q.hit,
                                       !.chorded = TRUE, !.calls = q.calls,
                                       !.shown = q.shown]
                            : q \in on_chord(r.b, over, x, y)}
                    ELSE IF r.hit
                    THEN {[same EXCEPT !.b = r.b, !.game_over = TRUE, !.ok = r.ok,
                                       !.hit = TRUE, !.pushed = r.pushed,
                                       !.shown = <<"loss">>]}
                    ELSE IF all_safe_revealed(r.b)
                    THEN {[same EXCEPT !.b = r.b, !.game_over = TRUE, !.ok = r.ok,
                                       !.pushed = r.pushed, !.shown = <<"win">>]}
                    ELSE {[same EXCEPT !.b = r.b, !.ok = r.ok, !.pushed = r.pushed]}
               : r \in reveal(b, x, y) }

\* ---- MinesweeperApp.on_right_click ----
\* on_right_click that does not look at game_over
on_right_click_after_end(b, over, x, y) ==
    toggle_flag(b, x, y)

\* [b, ok] after a right click on the button of cell (x, y)
on_right_click(b, over, x, y) ==
    IF over THEN [b |-> b, ok |-> FALSE]
    ELSE toggle_flag(b, x, y)

\* ---- MinesweeperApp.new_game ----
\* [b, game_over, raised]: when Board raises, the error is shown and the
\* session keeps its board and game_over
new_game(b, over, width, height, mines) ==
    LET r == BoardInit(width, height, mines) IN
    IF r.raised THEN [b |-> b, game_over |-> over, raised |-> TRUE]
    ELSE [b |-> r.b, game_over |-> FALSE, raised |-> FALSE]

\* ---- main: one pass of the terminal loop on the command "r x y" ----
\* the possible [b, returned, ok, hit, raised, pushed, shown]: returned tells
\* that main has returned (lines 212 and 216; an exception of reveal ends it
\* too), shown lists the outcomes it printed
main_reveal(b, x, y) ==
    { LET same == [b |-> r.b, returned |-> FALSE, ok |-> r.ok, hit |-> r.hit,
                   raised |-> r.raised, pushed |-> r.pushed, shown |-> << >>]
      IN  IF r.raised THEN [same EXCEPT !.returned = TRUE]
          ELSE IF ~r.ok THEN same
          ELSE IF r.hit THEN [same EXCEPT !.returned = TRUE, !.shown = <<"loss">>]
          ELSE IF all_safe_revealed(r.b)
          THEN [same EXCEPT !.returned = TRUE, !.shown = <<"win">>]
          ELSE same
      : r \in reveal(b, x, y) }

\* ---- the state as a board record ----
Board ==
    [w |-> w, h |-> h, mine_target |-> mine_target, grid |-> grid,
     mines_placed |-> mines_placed, revealed_count |-> revealed_count]

SetBoard(b) ==
    /\ w' = b.w
    /\ h' = b.h
    /\ mine_target' = b.mine_target
    /\ grid' = b.grid
    /\ mines_placed' = b.mines_placed
    /\ revealed_count' = b.revealed_count

\* ---- the record of a call: the operation, its arguments, what it returned
\* (ok, hit, raised) and what it did on the way: pushed are the cells a reveal
\* put on its flood-fill stack, calls the cells a chord called reveal on,
\* chorded whether a left click went on to on_chord, shown the outcomes the
\* caller announced ("loss", "win") in the order it announced them
NoCall ==
    [op |-> "new", x |-> 0, y |-> 0, ok |-> TRUE, hit |-> FALSE, raised |-> FALSE,
     pushed |-> << >>, calls |-> << >>, chorded |-> FALSE, shown |-> << >>]

\* ---- initial states: Board(width, height, mines) for every small argument ----
MineCounts(width, height) ==
    IF width * height <= FullCells THEN 0 .. width * height ELSE 0 .. MaxMines

\* how many operations are called on the board
OpsLimit == IF w * h <= FullCells THEN MaxOps ELSE BigOps

Init ==
    \E width \in 0 .. MaxW, height \in 0 .. MaxH :
    \E mines \in MineCounts(width, height) :
        LET r == BoardInit(width, height, mines) IN
        /\ width * height <= MaxCells
        /\ ctor = [width |-> width, height |-> height, mines |-> mines, raised |-> r.raised]
        /\ w = r.b.w
        /\ h = r.b.h
        /\ mine_target = r.b.mine_target
        /\ grid = r.b.grid
        /\ mines_placed = r.b.mines_placed
        /\ revealed_count = r.b.revealed_count
        /\ game_over = FALSE
        /\ safe = << >>
        /\ last = [NoCall EXCEPT !.ok = ~r.raised, !.raised = r.raised]
        /\ ops = 0

\* ---- operations ----
\* board.reveal(x, y)
Reveal(x, y) ==
    /\ ~ctor.raised
    /\ ops < OpsLimit
    /\ \E r \in reveal(Board, x, y) :
        /\ SetBoard(r.b)
        /\ safe' = IF ~mines_placed /\ r.b.mines_placed THEN <<x, y>> ELSE safe
        /\ last' = [NoCall EXCEPT !.op = "reveal", !.x = x, !.y = y, !.ok = r.ok,
                                   !.hit = r.hit, !.raised = r.raised, !.pushed = r.pushed]
    /\ ops' = ops + 1
    /\ UNCHANGED <<ctor, game_over>>

\* board.toggle_flag(x, y)
ToggleFlag(x, y) ==
    /\ ~ctor.raised
    /\ ops < OpsLimit
    /\ \E r \in {toggle_flag(Board, x, y)} :
        /\ SetBoard(r.b)
        /\ last' = [NoCall EXCEPT !.op = "toggle_flag", !.x = x, !.y = y, !.ok = r.ok]
    /\ ops' = ops + 1
    /\ UNCHANGED <<ctor, game_over, safe>>

\* the chord composite on the button of cell (x, y)
OnChord(x, y) ==
    /\ ~ctor.raised
    /\ ops < OpsLimit
    /\ <<x, y>> \in DOMAIN grid
    /\ \E r \in on_chord(Board, game_over, x, y) :
        /\ SetBoard(r.b)
        /\ game_over' = r.game_over
        /\ last' = [NoCall EXCEPT !.op = "chord", !.x = x, !.y = y, !.ok = r.acted,
                                   !.hit = r.hit, !.calls = r.calls, !.shown = r.shown]
    /\ ops' = ops + 1
    /\ UNCHANGED <<ctor, safe>>

\* coordinates a caller may pass: every cell, and one point beyond each of the
\* four comparisons of in_bounds
Inputs == Coords(w, h) \cup {<<-1, 0>>, <<w, 0>>, <<0, -1>>, <<0, h>>}

Next ==
    \/ \E c \in Inputs : Reveal(c[1], c[2])
    \/ \E c \in Inputs : ToggleFlag(c[1], c[2])
    \/ \E c \in Coords(w, h) : OnChord(c[1], c[2])

Spec == Init /\ [][Next]_vars

\* ---- the GUI session (game.py) ----
\* a left click on the button of cell (x, y)
OnLeftClick(x, y) ==
    /\ ops < OpsLimit
    /\ <<x, y>> \in DOMAIN grid
    /\ \E r \in on_left_click(Board, game_over, x, y) :
        /\ SetBoard(r.b)
        /\ game_over' = r.game_over
        /\ safe' = IF ~mines_placed /\ r.b.mines_placed THEN <<x, y>> ELSE safe
        /\ last' = [NoCall EXCEPT !.op = "left_click", !.x = x, !.y = y, !.ok = r.ok,
                                   !.hit = r.hit, !.raised = r.raised, !.pushed = r.pushed,
                                   !.calls = r.calls, !.chorded = r.chorded,
                                   !.shown = r.shown]
    /\ ops' = ops + 1
    /\ UNCHANGED ctor

\* a right click on the button of cell (x, y)
OnRightClick(x, y) ==
    /\ ops < OpsLimit
    /\ <<x, y>> \in DOMAIN grid
    /\ \E r \in {on_right_click(Board, game_over, x, y)} :
        /\ SetBoard(r.b)
        /\ last' = [NoCall EXCEPT !.op = "right_click", !.x = x, !.y = y, !.ok = r.ok]
    /\ ops' = ops + 1
    /\ UNCHANGED <<ctor, game_over, safe>>

\* the New button with custom inputs: new_game(width, height, mines)
NewGame(width, height, mines) ==
    /\ ops < OpsLimit
    /\ width * height <= MaxCells
    /\ \E r \in {new_game(Board, game_over, width, height, mines)} :
        /\ SetBoard(r.b)
        /\ game_over' = r.game_over
        /\ ctor' = IF r.raised THEN ctor
                   ELSE [width |-> width, height |-> height, mines |-> mines,
                         raised |-> FALSE]
        /\ safe' = IF r.raised THEN safe ELSE << >>
        /\ last' = [NoCall EXCEPT !.op = "new_game", !.ok = ~r.raised, !.raised = r.raised]
    /\ ops' = ops + 1

\* the Reset button: a new game of the size and mine count of the board
ResetGame ==
    /\ ops < OpsLimit
    /\ ~ctor.raised
    /\ \E r \in {new_game(Board, game_over, w, h, mine_target)} :
        /\ SetBoard(r.b)
        /\ game_over' = r.game_over
        /\ safe' = IF r.raised THEN safe ELSE << >>
        /\ last' = [NoCall EXCEPT !.op = "reset_game", !.ok = ~r.raised, !.raised = r.raised]
    /\ ops' = ops + 1
    /\ UNCHANGED ctor

GuiNext ==
    \/ \E c \in Coords(w, h) : OnLeftClick(c[1], c[2])
    \/ \E c \in Coords(w, h) : OnRightClick(c[1], c[2])
    \/ \E c \in Coords(w, h) : OnChord(c[1], c[2])
    \/ \E width \in 0 .. MaxW, height \in 0 .. MaxH :
         \E mines \in MineCounts(width, height) : NewGame(width, height, mines)
    \/ ResetGame

GuiSpec == Init /\ [][GuiNext]_vars

\* ---- the terminal session (main of minisweeper.py) ----
\* game_over stands for "main has returned": no command is read any more
\* the command "r x y"
MainReveal(x, y) ==
    /\ ~ctor.raised
    /\ ~game_over
    /\ ops < OpsLimit
    /\ \E r \in main_reveal(Board, x, y) :
        /\ SetBoard(r.b)
        /\ game_over' = r.returned
        /\ safe' = IF ~mines_placed /\ r.b.mines_placed THEN <<x, y>> ELSE safe
        /\ last' = [NoCall EXCEPT !.op = "main_reveal", !.x = x, !.y = y, !.ok = r.ok,
                                   !.hit = r.hit, !.raised = r.raised, !.pushed = r.pushed,
                                   !.shown = r.shown]
    /\ ops' = ops + 1
    /\ UNCHANGED ctor

\* the command "f x y"
MainFlag(x, y) ==
    /\ ~ctor.raised
    /\ ~game_over
    /\ ops < OpsLimit
    /\ \E r \in {toggle_flag(Board, x, y)} :
        /\ SetBoard(r.b)
        /\ last' = [NoCall EXCEPT !.op = "main_flag", !.x = x, !.y = y, !.ok = r.ok]
    /\ ops' = ops + 1
    /\ UNCHANGED <<ctor, game_over, safe>>

\* the command "q"
MainQuit ==
    /\ ~ctor.raised
    /\ ~game_over
    /\ ops < OpsLimit
    /\ game_over' = TRUE
    /\ last' = [NoCall EXCEPT !.op = "main_quit"]
    /\ ops' = ops + 1
    /\ UNCHANGED <<ctor, w, h, mine_target, grid, mines_placed, revealed_count, safe>>

MainNext ==
    \/ \E c \in Inputs : MainReveal(c[1], c[2])
    \/ \E c \in Inputs : MainFlag(c[1], c[2])
    \/ MainQuit

\* ---- a caller session: the GUI or the terminal loop, on its own board ----
GuiOps == {"left_click", "right_click", "chord", "new_game", "reset_game"}

MainOps == {"main_reveal", "main_flag", "main_quit"}

SessionNext ==
    \/ last.op \notin MainOps /\ GuiNext
    \/ last.op \notin GuiOps /\ MainNext

SessionSpec == Init /\ [][SessionNext]_vars

\* ---- well-formedness of the state ----
TypeOK ==
    /\ ctor.raised \in BOOLEAN
    /\ DOMAIN grid = Coords(w, h)
    /\ \A c \in DOMAIN grid :
        /\ grid[c].mine \in BOOLEAN
        /\ grid[c].revealed \in BOOLEAN
        /\ grid[c].flagged \in BOOLEAN
        /\ grid[c].adj \in 0 .. 8
    /\ mines_placed \in BOOLEAN
    /\ revealed_count \in Nat
    /\ game_over \in BOOLEAN
    /\ ops \in 0 .. OpsLimit

\* ---- vocabulary of the properties ----
\* the Moore neighbourhood of c, clipped at the edges of grid g
Moore(g, c) ==
    {d \in {<<c[1] + dx, c[2] + dy>> : dx \in -1 .. 1, dy \in -1 .. 1} : d # c /\ d \in DOMAIN g}

MineCells(g) == {c \in DOMAIN g : g[c].mine}

RevealedCells(g) == {c \in DOMAIN g : g[c].revealed}

EverySafeRevealed == \A c \in DOMAIN grid : ~grid[c].mine => grid[c].revealed

\* the step is a call of op; last' holds its arguments and its result
Called(op) == ops' = ops + 1 /\ last'.op = op

\* the cell the call of this step was aimed at
Target == <<last'.x, last'.y>>

\* C1: all_safe_revealed() is true exactly when every non-mine cell is
\* revealed, it is false before mines are placed, and a reveal that returns
\* hitMine = true never turns it from false to true.
C1_WinDetection ==
    /\ [](~ctor.raised =>
            /\ all_safe_revealed(Board) <=> EverySafeRevealed
            /\ ~mines_placed => ~all_safe_revealed(Board))
    /\ [][(Called("reveal") /\ last'.hit) =>
            ~(~all_safe_revealed(Board) /\ all_safe_revealed(Board'))]_vars

\* C2: on a board with width*height - 9 >= mineTarget, once the first
\* accepted reveal has placed the mines, neither its target (safe) nor any
\* in-bounds Moore neighbour of the target is a mine.
C2_FirstClickFairness ==
    (mines_placed /\ w * h - 9 >= mine_target) =>
        \A c \in {safe} \cup Moore(grid, safe) : ~grid[c].mine

\* C2 witness: mines placed by a click on an inner cell (eight neighbours) of
\* a board where the safe zone fits.
C2_Witness ==
    /\ mines_placed
    /\ w * h - 9 >= mine_target
    /\ Cardinality(Moore(grid, safe)) = 8
    /\ Cardinality(MineCells(grid)) = mine_target

\* C3: the first accepted reveal (in bounds, target not flagged, mines not yet
\* placed) never fails to place the mines, never makes its target a mine and
\* returns (ok = true, hitMine = false).
C3_FirstRevealSucceeds ==
    [][(/\ Called("reveal")
        /\ ~mines_placed
        /\ in_bounds(Board, last'.x, last'.y)
        /\ ~grid[Target].flagged)
       => (/\ ~last'.raised
           /\ mines_placed'
           /\ Cardinality(MineCells(grid')) = mine_target
           /\ ~grid'[Target].mine
           /\ last'.ok
           /\ ~last'.hit)]_vars

\* C3 witness: the first reveal was accepted on a board too small for the
\* safe zone (fewer cells outside it than mines), so the fallback pool was used.
C3_Witness ==
    /\ ops = 1
    /\ last.op = "reveal"
    /\ mines_placed
    /\ safe = <<last.x, last.y>>
    /\ Cardinality(DOMAIN grid \ ({safe} \cup Moore(grid, safe))) < mine_target
    /\ last.ok
    /\ ~last.hit

\* C4: while mines_placed is false no cell is a mine; once it is true exactly
\* mine_target cells are mines.
C4_MineCount ==
    /\ ~mines_placed => MineCells(grid) = {}
    /\ mines_placed => Cardinality(MineCells(grid)) = mine_target

\* C4 witness: mines are placed, more than one of them, and play went on.
C4_Witness ==
    /\ mines_placed
    /\ mine_target >= 2
    /\ Cardinality(MineCells(grid)) = mine_target
    /\ ops >= 2

\* C5: adj of every non-mine cell is the number of mines in its clipped Moore
\* neighbourhood; before placement adj is 0 everywhere.
C5_Adjacency ==
    /\ \A c \in DOMAIN grid :
          ~grid[c].mine => grid[c].adj = Cardinality(Moore(grid, c) \cap MineCells(grid))
    /\ ~mines_placed => \A c \in DOMAIN grid : grid[c].adj = 0

\* C5 witness: a placed board of several mines where one safe cell counts two
\* or more of them and another safe cell counts fewer.
C5_Witness ==
    /\ mines_placed
    /\ mine_target >= 2
    /\ \E c, d \in DOMAIN grid :
          /\ ~grid[c].mine
          /\ ~grid[d].mine
          /\ grid[c].adj >= 2
          /\ grid[d].adj < grid[c].adj

\* C6: revealed_count is the number of revealed cells, after any sequence of
\* reveal, toggle_flag and chord.
C6_RevealedCount ==
    revealed_count = Cardinality(RevealedCells(grid))

\* C6 witness: a chord has just revealed neighbours of a numbered cell, after
\* a reveal and a flag; three or more cells are revealed.
C6_Witness ==
    /\ last.op = "chord"
    /\ last.ok
    /\ ~last.hit
    /\ revealed_count >= 3
    /\ \E c \in DOMAIN grid : grid[c].flagged

\* C7: no cell is both flagged and revealed.
C7_FlagRevealExclusive ==
    \A c \in DOMAIN grid : ~(grid[c].flagged /\ grid[c].revealed)

\* C7 witness: toggle_flag was refused on a revealed cell while another cell,
\* flagged, is still unrevealed next to revealed cells.
C7_Witness ==
    /\ last.op = "toggle_flag"
    /\ ~last.ok
    /\ <<last.x, last.y>> \in RevealedCells(grid)
    /\ \E c \in DOMAIN grid :
          grid[c].flagged /\ Moore(grid, c) \cap RevealedCells(grid) # {}

\* the least set that contains t and, with every cell whose adj (in adjg) is
\* 0, each neighbour that is unrevealed and unflagged in pre and no mine in pre
RECURSIVE FloodRegion(_, _, _)
FloodRegion(R, pre, adjg) ==
    LET zeros == {c \in R : adjg[c].adj = 0}
        more == {n \in UNION {Moore(pre, c) : c \in zeros} :
                    ~pre[n].revealed /\ ~pre[n].flagged /\ ~pre[n].mine}
    IN  IF more \subseteq R THEN R ELSE FloodRegion(R \cup more, pre, adjg)

\* C8: a reveal aimed at an in-bounds, unflagged, unrevealed cell that is no
\* mine newly reveals, when the cell's adj is 0, exactly the least set that
\* holds the cell and, with each of its cells of adj 0, every neighbour that
\* was unrevealed, unflagged and no mine before the call; when the cell's adj
\* is positive it reveals the cell alone. (adj is read once the mines are in
\* place, which for the first reveal is during the call.)
C8_FloodFillExact ==
    [][(/\ Called("reveal")
        /\ in_bounds(Board, last'.x, last'.y)
        /\ ~grid[Target].flagged
        /\ ~grid[Target].revealed
        /\ ~last'.raised
        /\ ~grid'[Target].mine)
       => LET newly == RevealedCells(grid') \ RevealedCells(grid) IN
          IF grid'[Target].adj = 0
          THEN newly = FloodRegion({Target}, grid, grid')
          ELSE newly = {Target}]_vars

\* C8 witness: a reveal of a zero cell flood-filled up to numbered cells and
\* stopped there: a revealed numbered cell has a safe, unflagged neighbour
\* that is still unrevealed.
C8_Witness ==
    /\ last.op = "reveal"
    /\ last.ok
    /\ ops = 1
    /\ grid[<<last.x, last.y>>].adj = 0
    /\ revealed_count >= 4
    /\ \E c \in DOMAIN grid :
          /\ grid[c].revealed
          /\ grid[c].adj > 0
          /\ \E n \in Moore(grid, c) :
                ~grid[n].revealed /\ ~grid[n].mine /\ ~grid[n].flagged

\* C9: a reveal reveals no mine other than its target, changes no flag,
\* leaves the set of revealed mines alone when it returns hitMine = false, and
\* leaves every flagged cell flagged and unrevealed.
C9_RevealSparesMinesAndFlags ==
    [][Called("reveal") =>
        /\ \A c \in DOMAIN grid : grid'[c].flagged = grid[c].flagged
        /\ \A c \in DOMAIN grid :
              (grid'[c].mine /\ grid'[c].revealed /\ ~grid[c].revealed) => c = Target
        /\ ~last'.hit =>
              MineCells(grid') \cap RevealedCells(grid')
                  = MineCells(grid) \cap RevealedCells(grid)
        /\ \A c \in DOMAIN grid :
              grid[c].flagged => grid'[c].flagged /\ ~grid'[c].revealed]_vars

\* C9 witness: a flood fill has passed a flagged safe cell: the cell is still
\* flagged and unrevealed beside a revealed zero cell, and no mine is revealed.
C9_Witness ==
    /\ last.op = "reveal"
    /\ ~last.hit
    /\ revealed_count >= 2
    /\ MineCells(grid) \cap RevealedCells(grid) = {}
    /\ \E c \in DOMAIN grid :
          /\ grid[c].flagged
          /\ ~grid[c].revealed
          /\ ~grid[c].mine
          /\ \E d \in Moore(grid, c) : grid[d].revealed /\ grid[d].adj = 0

\* C10: a reveal out of bounds or on a flagged cell returns (false, false), a
\* toggle_flag out of bounds or on a revealed cell returns false, and neither
\* changes a cell, mines_placed or revealed_count.
C10_RejectedMovesChangeNothing ==
    [][/\ (Called("reveal") /\ (~in_bounds(Board, last'.x, last'.y) \/ grid[Target].flagged))
          => (~last'.ok /\ ~last'.hit /\ ~last'.raised /\ Board' = Board)
       /\ (Called("toggle_flag") /\ (~in_bounds(Board, last'.x, last'.y) \/ grid[Target].revealed))
          => (~last'.ok /\ Board' = Board)]_vars

\* C10 witness: the first reveal was aimed at a flagged cell and refused; no
\* mines were placed.
C10_Witness ==
    /\ last.op = "reveal"
    /\ ~last.ok
    /\ <<last.x, last.y>> \in DOMAIN grid
    /\ grid[<<last.x, last.y>>].flagged
    /\ ~mines_placed
    /\ MineCells(grid) = {}
    /\ revealed_count = 0

\* the neighbours of c that are flagged in grid g
FlaggedMoore(g, c) == {n \in Moore(g, c) : g[n].flagged}

\* C11: a reveal aimed at an already revealed cell, safe or a mine hit
\* earlier, returns (ok = true, hitMine = false) and changes neither a cell,
\* nor mines_placed, nor revealed_count.
C11_RevealIdempotent ==
    [][(/\ Called("reveal")
        /\ in_bounds(Board, last'.x, last'.y)
        /\ grid[Target].revealed)
       => (last'.ok /\ ~last'.hit /\ ~last'.raised /\ Board' = Board)]_vars

\* C11 witness: a mine that was hit earlier has been revealed again; the call
\* returned (true, false) and the mine is counted once.
C11_Witness ==
    /\ last.op = "reveal"
    /\ last.ok
    /\ ~last.hit
    /\ <<last.x, last.y>> \in MineCells(grid) \cap RevealedCells(grid)
    /\ revealed_count = Cardinality(RevealedCells(grid))

\* C12: Board(width, height, mines) raises unless width > 0, height > 0 and
\* 0 < mines <= width*height - 1, and then there is no board (so no 1x1 board
\* exists); when it succeeds, the new board has the given size and target,
\* mines_placed false, revealed_count 0 and every cell non-mine, unrevealed,
\* unflagged with adj 0.
C12_Construction ==
    LET valid == /\ ctor.width > 0
                 /\ ctor.height > 0
                 /\ 0 < ctor.mines
                 /\ ctor.mines <= ctor.width * ctor.height - 1
    IN  /\ ctor.raised <=> ~valid
        /\ ctor.raised => DOMAIN grid = {}
        /\ (ctor.width = 1 /\ ctor.height = 1) => ctor.raised
        /\ ~ctor.raised =>
              /\ w = ctor.width /\ h = ctor.height /\ mine_target = ctor.mines
              /\ DOMAIN grid = (0 .. ctor.width - 1) \X (0 .. ctor.height - 1)
        /\ (~ctor.raised /\ last.op = "new") =>
              /\ ~mines_placed
              /\ revealed_count = 0
              /\ \A c \in DOMAIN grid :
                    /\ ~grid[c].mine
                    /\ ~grid[c].revealed
                    /\ ~grid[c].flagged
                    /\ grid[c].adj = 0

\* C12 witness: Board(1, 1, 1) was refused.
C12_Witness ==
    /\ ctor.width = 1
    /\ ctor.height = 1
    /\ ctor.mines = 1
    /\ ctor.raised
    /\ last.op = "new"

\* C13: a chord on a cell that is unrevealed, or has adj <= 0, or whose number
\* of flagged neighbours differs from its adj, changes no cell, not
\* revealed_count, not mines_placed and not game_over.
C13_ChordNoOp ==
    [][(/\ Called("chord")
        /\ \/ ~grid[Target].revealed
           \/ grid[Target].adj <= 0
           \/ Cardinality(FlaggedMoore(grid, Target)) # grid[Target].adj)
       => (Board' = Board /\ game_over' = game_over /\ last'.calls = << >>)]_vars

\* C13 witness: a chord on a revealed cell of adj 2 with exactly one flagged
\* neighbour and an unflagged hidden neighbour did nothing.
C13_Witness ==
    /\ last.op = "chord"
    /\ ~last.ok
    /\ ~game_over
    /\ grid[<<last.x, last.y>>].revealed
    /\ grid[<<last.x, last.y>>].adj = 2
    /\ Cardinality(FlaggedMoore(grid, <<last.x, last.y>>)) = 1
    /\ \E n \in Moore(grid, <<last.x, last.y>>) : ~grid[n].revealed /\ ~grid[n].flagged

\* C14: a chord, in a game in progress, on a revealed cell of adj k > 0 with
\* exactly k flagged neighbours, none of whose reveals hits a mine, leaves
\* every neighbour flagged or revealed; the neighbours are revealed by reveal:
\* the newly revealed cells are the flood-fill region of the neighbours that
\* were neither flagged nor revealed, and no flag changes.
C14_ChordRevealsNeighbours ==
    [][(/\ Called("chord")
        /\ ~game_over
        /\ grid[Target].revealed
        /\ grid[Target].adj > 0
        /\ Cardinality(FlaggedMoore(grid, Target)) = grid[Target].adj
        /\ ~last'.hit)
       => LET todo == {n \in Moore(grid, Target) : ~grid[n].flagged /\ ~grid[n].revealed} IN
          /\ \A n \in Moore(grid, Target) : grid'[n].flagged \/ grid'[n].revealed
          /\ \A c \in DOMAIN grid : grid'[c].flagged = grid[c].flagged
          /\ RevealedCells(grid') \ RevealedCells(grid) = FloodRegion(todo, grid, grid)
          /\ revealed_count' = Cardinality(RevealedCells(grid'))]_vars

\* C14 witness: a chord on a satisfied numbered cell revealed two or more
\* neighbours without a hit; every neighbour is now flagged or revealed.
C14_Witness ==
    /\ last.op = "chord"
    /\ last.ok
    /\ ~last.hit
    /\ Len(last.calls) >= 2
    /\ grid[<<last.x, last.y>>].adj = Cardinality(FlaggedMoore(grid, <<last.x, last.y>>))
    /\ \A n \in Moore(grid, <<last.x, last.y>>) : grid[n].flagged \/ grid[n].revealed

\* the position of element e in sequence s
IndexIn(s, e) == CHOOSE i \in 1 .. Len(s) : s[i] = e

\* the mine a call has newly revealed
HitCell == CHOOSE c \in MineCells(grid') : grid'[c].revealed /\ ~grid[c].revealed

\* C15 as stated: when a neighbour reveal of a chord hits a mine, the session
\* becomes game over and no neighbour later in the iteration order than the
\* mine is revealed by that chord.
C15_NoLaterNeighbourRevealed ==
    [][(Called("chord") /\ last'.hit)
       => LET ns == neighbors(Board, last'.x, last'.y)
              k == IndexIn(ns, HitCell)
          IN  /\ game_over'
              /\ \A j \in k + 1 .. Len(ns) :
                    ~(grid'[ns[j]].revealed /\ ~grid[ns[j]].revealed)]_vars

\* C15 amended: when a neighbour reveal of a chord hits a mine, the session
\* becomes game over and reveal is called on no neighbour later in the
\* iteration order: the mine is the last cell reveal was called on, and the
\* newly revealed cells are the mine and the flood-fill region of the
\* unflagged unrevealed neighbours before it (a later neighbour can be among
\* them only through the flood fill of an earlier one).
C15_ChordStopsAtHit ==
    [][(Called("chord") /\ last'.hit)
       => LET ns == neighbors(Board, last'.x, last'.y)
              k == IndexIn(ns, HitCell)
              before == {ns[j] : j \in 1 .. k - 1}
              todo == {n \in before : ~grid[n].flagged /\ ~grid[n].revealed}
              calls == last'.calls
          IN  /\ game_over'
              /\ calls # << >>
              /\ calls[Len(calls)] = HitCell
              /\ \A i \in 1 .. Len(calls) - 1 : calls[i] \in todo
              /\ RevealedCells(grid') \ RevealedCells(grid)
                    = {HitCell} \cup FloodRegion(todo, grid, grid)
              /\ \A c \in DOMAIN grid : grid'[c].flagged = grid[c].flagged]_vars

\* C15 witness: a chord hit a mine and stopped: the session is over and a
\* neighbour later in the iteration order than the mine is still unrevealed
\* and unflagged.
C15_Witness ==
    /\ last.op = "chord"
    /\ last.hit
    /\ game_over
    /\ LET ns == neighbors(Board, last.x, last.y)
           c == last.calls[Len(last.calls)]
       IN  /\ grid[c].mine /\ grid[c].revealed
           /\ \E j \in IndexIn(ns, c) + 1 .. Len(ns) :
                 ~grid[ns[j]].revealed /\ ~grid[ns[j]].flagged

\* C16: an accepted toggle_flag (in bounds, cell unrevealed) returns true and
\* flips the flagged attribute of its cell only: no other attribute of any
\* cell, revealed_count or mines_placed changes, so it never places mines;
\* and toggling an unrevealed cell twice in a row gives the board back.
C16_ToggleFlag ==
    /\ [](\A c \in DOMAIN grid :
            ~grid[c].revealed =>
               LET once == toggle_flag(Board, c[1], c[2])
                   twice == toggle_flag(once.b, c[1], c[2])
               IN  once.ok /\ twice.ok /\ once.b # Board /\ twice.b = Board)
    /\ [][(/\ Called("toggle_flag")
           /\ in_bounds(Board, last'.x, last'.y)
           /\ ~grid[Target].revealed)
          => /\ last'.ok
             /\ grid' = [grid EXCEPT ![Target].flagged = ~@]
             /\ mines_placed' = mines_placed
             /\ revealed_count' = revealed_count
             /\ UNCHANGED <<w, h, mine_target, safe, game_over>>]_vars

\* C16 witness: before any mine is placed, a second accepted toggle has taken
\* the flag off again and the board is as it was constructed.
C16_Witness ==
    /\ last.op = "toggle_flag"
    /\ last.ok
    /\ ops = 2
    /\ ~mines_placed
    /\ ~grid[<<last.x, last.y>>].flagged
    /\ Board = BoardInit(ctor.width, ctor.height, ctor.mines).b

\* C17: mines_placed turns true at the first accepted reveal (in bounds, cell
\* unflagged) and at no other call, and never turns false; before that no
\* cell is a mine and every adj is 0; once it is true, mine and adj of every
\* cell stay as they are.
C17_PlacementOnce ==
    [][/\ mines_placed =>
            /\ mines_placed'
            /\ \A c \in DOMAIN grid :
                  grid'[c].mine = grid[c].mine /\ grid'[c].adj = grid[c].adj
       /\ ~mines_placed =>
            /\ \A c \in DOMAIN grid : ~grid[c].mine /\ grid[c].adj = 0 /\ ~grid[c].revealed
            /\ mines_placed' <=> /\ Called("reveal")
                                 /\ in_bounds(Board, last'.x, last'.y)
                                 /\ ~grid[Target].flagged
            /\ mines_placed' => Cardinality(MineCells(grid')) = mine_target]_vars

\* C17 witness: with the mines in place, a later reveal of another unrevealed
\* cell was accepted.
C17_Witness ==
    /\ mines_placed
    /\ last.op = "reveal"
    /\ last.ok
    /\ ops >= 2
    /\ safe # <<last.x, last.y>>
    /\ grid[safe].revealed
    /\ Cardinality(MineCells(grid)) = mine_target

\* C18: the flood fill of a reveal ends, and it pushes each cell at most once:
\* the cells it pushed are distinct, at most width*height, and they are
\* exactly the cells of adj 0 the call newly revealed, the target first.
C18_FloodFillPushesOnce ==
    [][Called("reveal")
       => LET p == last'.pushed
              newly == RevealedCells(grid') \ RevealedCells(grid)
          IN  /\ Len(p) <= w * h
              /\ Cardinality(newly) <= w * h
              /\ \A i, j \in 1 .. Len(p) : p[i] = p[j] => i = j
              /\ p # << >> => p[1] = Target
              /\ {p[i] : i \in 1 .. Len(p)}
                    = {c \in newly : grid'[c].adj = 0 /\ ~grid'[c].mine}]_vars

\* C18 witness: a reveal whose flood fill pushed three or more cells.
C18_Witness ==
    /\ last.op = "reveal"
    /\ last.ok
    /\ Len(last.pushed) >= 3
    /\ \A i \in 1 .. Len(last.pushed) : grid[last.pushed[i]].revealed

\* C19: once game_over is set, a left click, a right click or a chord changes
\* nothing of the board (no cell, not revealed_count, not mines_placed) and
\* leaves game_over set; only a new game changes them.
C19_GameOverFreezesBoard ==
    [][(/\ game_over
        /\ ops' = ops + 1
        /\ last'.op \in {"left_click", "right_click", "chord"})
       => (Board' = Board /\ game_over' /\ safe' = safe /\ ~last'.ok /\ ~last'.hit)]_vars

\* C19 witness: after the game was over, a right click on an unrevealed cell
\* left it without a flag.
C19_Witness ==
    /\ game_over
    /\ last.op = "right_click"
    /\ ~last.ok
    /\ ~grid[<<last.x, last.y>>].revealed
    /\ ~grid[<<last.x, last.y>>].flagged

\* C20: a left click, with the game in progress, on a cell that is already
\* revealed, is no mine and shows a number goes on to on_chord for that cell.
C20_LeftClickOnNumberChords ==
    [][(/\ Called("left_click")
        /\ ~game_over
        /\ grid[Target].revealed
        /\ ~grid[Target].mine
        /\ grid[Target].adj > 0)
       => last'.chorded]_vars

\* C21: in a caller session (GUI or terminal loop) a win is announced only in
\* a state where every non-mine cell is revealed and no mine is revealed; a
\* loss is announced by a call exactly when a reveal of that call returned
\* hitMine = true; no call announces both, an announcement is made only in a
\* game in progress and ends it, and nothing is announced in a game that is
\* over until a new game starts: a game has at most one of win and loss.
C21_WinLossDeclared ==
    [][(ops' = ops + 1)
       => LET shown == SeqToSet(last'.shown) IN
          /\ "win" \in shown =>
                \A c \in DOMAIN grid' : grid'[c].revealed <=> ~grid'[c].mine
          /\ "loss" \in shown <=> last'.hit
          /\ Len(last'.shown) <= 1
          /\ shown # {} => (~game_over /\ game_over')
          /\ (game_over /\ last'.op \notin {"new_game", "reset_game"})
                => (shown = {} /\ game_over')]_vars

\* C21 witness: the terminal loop announced a loss, and only the loss, for a
\* reveal that hit a mine while all_safe_revealed() had turned true.
C21_Witness ==
    /\ last.op = "main_reveal"
    /\ last.hit
    /\ last.shown = <<"loss">>
    /\ game_over
    /\ all_safe_revealed(Board)
    /\ grid[<<last.x, last.y>>].mine

====
